---- MODULE Spec2Model ----
(***************************************************************************)
(* Model of the adapters of better-convex-query (src/src/index.ts): the    *)
(* mutation-state adapter (useMutation, specification Spec), the           *)
(* query-state adapters (useQuery and useCacheQuery, evaluated side by     *)
(* side, specification SpecQuery) and the binding key as a function of     *)
(* its inputs (specification SpecKey).                                     *)
(*                                                                         *)
(* One call site owns three useState cells (isPending, error, status).     *)
(* mutateAsync runs synchronously up to its single await, and the code     *)
(* after the await runs as one uninterrupted continuation when the remote  *)
(* call settles.  Every handler is modelled by the ordered list of         *)
(* effects its code performs (state setter calls, user callback calls,     *)
(* the call of the remote invoker, the final return or throw); the state   *)
(* cells are the fold of the setter effects.                               *)
(***************************************************************************)
EXTENDS Integers, Sequences, FiniteSets, TLC

\* ---------------------------------------------------------------- bounds
\* number of mutate calls made at the call site
MaxCalls == 2

\* ---------------------------------------------------------------- values
Undefined == "undefined"

\* argument payloads handed to mutate
Variables == {"a1", "a2"}

\* values the remote call can resolve with
Results == {"r1"}

\* values for which `instanceof Error` is true
ErrorObjects == {"Error:e1", "Error:callback", "Error:Unknown error"}

\* values the remote call can reject with: an Error object or a plain string
Rejections == {"Error:e1", "boom"}

\* values a user callback can throw
CallbackThrows == {"Error:callback"}

\* the three optional callbacks of UseMutationOptions
CallbackNames == {"onSuccess", "onError", "onSettled"}

MutationStatus == {"idle", "pending", "error", "success"}

\* ---------------------------------------------------------------- effects
\* One effect of a handler: op names the setter, callback or control
\* transfer; b is the boolean argument of setIsPending, or, for a callback
\* call, whether that call threw; v, w, x are the remaining arguments.
Eff(op, b, v, w, x) == [op |-> op, b |-> b, v |-> v, w |-> w, x |-> x]

SetIsPending(b) == Eff("setIsPending", b, Undefined, Undefined, Undefined)
SetError(e) == Eff("setError", FALSE, e, Undefined, Undefined)
SetStatus(s) == Eff("setStatus", FALSE, s, Undefined, Undefined)
ConvexMutation(variables) == Eff("convexMutation", FALSE, variables, Undefined, Undefined)
OnSuccess(data, variables, threw) == Eff("onSuccess", threw, data, variables, Undefined)
OnError(error, variables, threw) == Eff("onError", threw, error, variables, Undefined)
OnSettled(data, error, variables, threw) == Eff("onSettled", threw, data, error, variables)
Return(v) == Eff("return", FALSE, v, Undefined, Undefined)
Throw(v) == Eff("throw", FALSE, v, Undefined, Undefined)

SetterOps == {"setIsPending", "setError", "setStatus"}

VARIABLES
  mstate,     \* the useState cells: [isPending, error, status]
  mounted,    \* the call site is alive
  options,    \* the callbacks present in the options object
  inflight,   \* invocations awaiting convexMutation
  calls,      \* number of mutate calls made so far
  last,       \* the last operation: its kind, its invocation, the remote outcome
  prev,       \* mstate before the last operation
  trace,      \* the effects the last operation performed, in order
  lateSets    \* number of setter calls issued after the call site was torn down

vars == <<mstate, mounted, options, inflight, calls, last, prev, trace, lateSets>>

\* the query-state adapter (useQuery): one call site, evaluated repeatedly
VARIABLES
  view,         \* the two refs: [data |-> previousDataRef, key |-> previousQueryKeyRef]
  queries,      \* the useMemo cell of the mapping handed to useQueries: [deps, value]
  rendered,     \* the call site has been evaluated at least once
  qin,          \* the last evaluation: [key, skip, enabled, keepPreviousData]
  snap,         \* what the registry held for the binding at the last evaluation
  convexResult, \* results.query as read by the last evaluation
  qresult,      \* the record the last evaluation returned
  qchange,      \* the last evaluation against the one before: "first", "same"
                \* (inputs and snapshot unchanged), "key" (another binding key)
                \* or "other"
  qprevHeld,    \* the evaluation before the last returned placeholder data
  observed      \* the last value any evaluation read from the registry

\* the cached variant (useCacheQuery), evaluated side by side with useQuery
\* at the same call site, on the same inputs
VARIABLES
  cview,          \* its two refs: [data, key]
  cqueries,       \* its useMemo cell of the mapping handed to useCachedQueries
  cconvexResult,  \* results.query as read by its last evaluation
  cresult         \* the record its last evaluation returned

qvars == <<view, queries, rendered, qin, snap, convexResult, qresult,
           qchange, qprevHeld, observed,
           cview, cqueries, cconvexResult, cresult>>

\* the binding key as a function of its inputs: two bindings and their keys
VARIABLES
  keyInputs,   \* two bindings <<[query, args], [query, args]>>
  keyOutputs   \* <<>> until computed, then the binding keys of the two

kvars == <<keyInputs, keyOutputs>>

\* ------------------------------------------------------- state and folding
\* useState(false), useState(undefined), useState("idle")
InitialState == [isPending |-> FALSE, error |-> Undefined, status |-> "idle"]

\* one setter call applied to the state cells; other effects leave them alone
ApplyEffect(st, e) ==
  IF e.op = "setIsPending" THEN [st EXCEPT !.isPending = e.b]
  ELSE IF e.op = "setError" THEN [st EXCEPT !.error = e.v]
  ELSE IF e.op = "setStatus" THEN [st EXCEPT !.status = e.v]
  ELSE st

RECURSIVE ApplyEffects(_, _)
ApplyEffects(st, es) ==
  IF es = <<>> THEN st
  ELSE ApplyEffects(ApplyEffect(st, Head(es)), Tail(es))

\* the effects of es whose op is in ops, in order
SelectOps(es, ops) == SelectSeq(es, LAMBDA e : e.op \in ops)

NumSets(es) == Len(SelectOps(es, SetterOps))

\* ------------------------------------------------------------- the handlers
\* reset: three unconditional setter calls
ResetEffects_KeepsError == <<SetIsPending(FALSE), SetStatus("idle")>>

ResetEffects == <<SetIsPending(FALSE), SetError(Undefined), SetStatus("idle")>>

\* mutateAsync up to the await: three setter calls, then the remote invoker
MutateStart_NoPending(variables) ==
  <<SetIsPending(TRUE), SetError(Undefined), ConvexMutation(variables)>>

MutateStart(variables) ==
  <<SetIsPending(TRUE), SetError(Undefined), SetStatus("pending"),
    ConvexMutation(variables)>>

\* err instanceof Error ? err : new Error("Unknown error")
Normalize_Identity(err) == err

Normalize(err) == IF err \in ErrorObjects THEN err ELSE "Error:Unknown error"

\* the catch block: store the normalized error, call onError then onSettled
\* when present, rethrow.  An exception of a callback leaves the block at
\* once and becomes the rejection of the returned promise.
CatchBody_Swallows(err, variables, opts, th, tv) ==
  LET error == Normalize(err)
  IN <<SetError(error), SetStatus("error"), SetIsPending(FALSE)>>
     \o (IF "onError" \in opts THEN <<OnError(error, variables, FALSE)>> ELSE <<>>)
     \o (IF "onSettled" \in opts
           THEN <<OnSettled(Undefined, error, variables, FALSE)>> ELSE <<>>)
     \o <<Return(Undefined)>>

CatchBody(err, variables, opts, th, tv) ==
  LET error == Normalize(err)
      sets == <<SetError(error), SetStatus("error"), SetIsPending(FALSE)>>
      t1 == "onError" \in opts /\ "onError" \in th
      c1 == IF "onError" \in opts THEN <<OnError(error, variables, t1)>> ELSE <<>>
      t2 == "onSettled" \in opts /\ "onSettledCatch" \in th
      c2 == IF "onSettled" \in opts
              THEN <<OnSettled(Undefined, error, variables, t2)>> ELSE <<>>
  IN IF t1 THEN sets \o c1 \o <<Throw(tv)>>
     ELSE IF t2 THEN sets \o c1 \o c2 \o <<Throw(tv)>>
     ELSE sets \o c1 \o c2 \o <<Throw(error)>>

\* the try block after the await resolved: onSuccess then onSettled when
\* present, then the two setter calls and the return.  An exception of a
\* callback is caught by the catch block of the same try statement.
TryBody_SettledFirst(result, variables, opts, th, tv) ==
  (IF "onSettled" \in opts
     THEN <<OnSettled(result, Undefined, variables, FALSE)>> ELSE <<>>)
  \o (IF "onSuccess" \in opts THEN <<OnSuccess(result, variables, FALSE)>> ELSE <<>>)
  \o <<SetStatus("success"), SetIsPending(FALSE), Return(result)>>

TryBody(result, variables, opts, th, tv) ==
  LET t1 == "onSuccess" \in opts /\ "onSuccess" \in th
      c1 == IF "onSuccess" \in opts THEN <<OnSuccess(result, variables, t1)>> ELSE <<>>
      t2 == "onSettled" \in opts /\ "onSettledTry" \in th
      c2 == IF "onSettled" \in opts
              THEN <<OnSettled(result, Undefined, variables, t2)>> ELSE <<>>
  IN IF t1 THEN c1 \o CatchBody(tv, variables, opts, th, tv)
     ELSE IF t2 THEN c1 \o c2 \o CatchBody(tv, variables, opts, th, tv)
     ELSE c1 \o c2 \o <<SetStatus("success"), SetIsPending(FALSE), Return(result)>>

\* mutateAsync after the await: the try block when convexMutation resolved,
\* the catch block when it rejected
Continuation(remote, variables, opts, th, tv) ==
  IF remote.kind = "resolve"
    THEN TryBody(remote.val, variables, opts, th, tv)
    ELSE CatchBody(remote.val, variables, opts, th, tv)

\* the callback calls that throw in one run of the continuation: at most
\* one in the try block, which is left at the first exception, and at most
\* one in the catch block, which is left at the first exception too
ThrowSets(remote) ==
  LET inCatch == {{}, {"onError"}, {"onSettledCatch"}}
  IN IF remote.kind = "resolve"
       THEN {{}} \cup {{a} \cup b : a \in {"onSuccess", "onSettledTry"}, b \in inCatch}
       ELSE inCatch

\* what the remote call can produce
RemoteOutcomes ==
  {[kind |-> "resolve", val |-> r] : r \in Results}
    \cup {[kind |-> "reject", val |-> r] : r \in Rejections}

NoRemote == [kind |-> "none", val |-> Undefined]

\* an invocation of mutateAsync suspended at its await.  pre is the status
\* the call found; overlap, wasReset and otherSettled record what happened
\* at the call site while the invocation was in flight.
Invocation(id, variables, pre, overlap) ==
  [id |-> id, variables |-> variables, pre |-> pre, overlap |-> overlap,
   wasReset |-> FALSE, otherSettled |-> FALSE]

NoInvocation == Invocation(0, Undefined, "idle", FALSE)

Op(kind, inv, remote) == [kind |-> kind, inv |-> inv, remote |-> remote]

\* ------------------------------------------------- the query derivation
\* function references
QueryRefs ==
  {[ref |-> "f1", name |-> "users:get"],
   [ref |-> "g1", name |-> "users:list"]}

GetFunctionName(query) == query.name

\* argument payloads: the fields and values in insertion order
Payloads ==
  {<< <<"a", "1">>, <<"b", "2">> >>,
   << <<"b", "2">>, <<"a", "1">> >>}

\* queryArgs[0]: a payload, the "skip" sentinel, or nothing
ArgInputs ==
  {[tag |-> "object", obj |-> p] : p \in Payloads}
    \cup {[tag |-> "skip", obj |-> <<>>], [tag |-> "omitted", obj |-> <<>>]}

\* queryArgs[1]: nothing, or enabled and keepPreviousData
OptionInputs ==
  {[given |-> FALSE, enabled |-> TRUE, keepPreviousData |-> FALSE]}
    \cup {[given |-> TRUE, enabled |-> e, keepPreviousData |-> k] :
            e \in BOOLEAN, k \in BOOLEAN}

\* const { enabled = true, keepPreviousData = false } = options ?? {}
Enabled(opts) == IF opts.given THEN opts.enabled ELSE TRUE

KeepPreviousData(opts) == IF opts.given THEN opts.keepPreviousData ELSE FALSE

\* const skip = args === "skip"
Skip(args) == args.tag = "skip"

\* const argsObject = args === "skip" ? {} : args, with args = queryArgs[0] ?? {}
ArgsObject(args) == IF args.tag = "object" THEN args.obj ELSE <<>>

\* the order in which the canonical serialization lists the fields
FieldOrder == <<"a", "b">>

\* convexToJson: the payload with its fields in canonical order, whatever
\* the order they were inserted in
ConvexToJson(obj) ==
  LET Has(f) == \E i \in 1..Len(obj) : obj[i][1] = f
      Pair(f) == obj[CHOOSE i \in 1..Len(obj) : obj[i][1] = f]
      Field(k) == IF Has(FieldOrder[k]) THEN <<Pair(FieldOrder[k])>> ELSE <<>>
  IN Field(1) \o Field(2)

\* JSON.stringify({fn: getFunctionName(query), args: convexToJson(argsObject)})
CurrentQueryKey_InsertionOrder(query, argsObject) ==
  [fn |-> GetFunctionName(query), args |-> argsObject]

CurrentQueryKey(query, argsObject) ==
  [fn |-> GetFunctionName(query), args |-> ConvexToJson(argsObject)]

\* useRef<string>(""): no serialization is the empty string
EmptyKey == [fn |-> "", args |-> <<>>]

\* the mapping handed to useQueries, as computed when the memo is stale
Queries_IgnoresEnabled(query, argsObject, skip, enabled) ==
  IF skip THEN {} ELSE {[label |-> "query", query |-> query, args |-> argsObject]}

Queries(query, argsObject, skip, enabled) ==
  IF skip \/ ~enabled
    THEN {}
    ELSE {[label |-> "query", query |-> query, args |-> argsObject]}

\* the dependency list of that memo
QueriesDeps(query, argsObject, skip, enabled) ==
  <<ConvexToJson(argsObject), GetFunctionName(query), skip, enabled>>

\* a snapshot of the registry: no result yet, a value, or an error object
Absent == [kind |-> "absent", val |-> Undefined]

Snapshots ==
  {Absent}
    \cup {[kind |-> "value", val |-> v] : v \in {"v1", "v2"}}
    \cup {[kind |-> "error", val |-> "Error:q"]}

\* useQueries(queries).query: the registry answers per label of the mapping
\* it was handed, so an empty mapping reads undefined
UseQueries(qs, s) == IF qs = {} THEN Absent ELSE s

\* previousQueryKeyRef.current !== "" && previousQueryKeyRef.current !== currentQueryKey
QueryKeyChanged_FnOnly(previousQueryKey, currentQueryKey) ==
  previousQueryKey # EmptyKey /\ previousQueryKey.fn # currentQueryKey.fn

QueryKeyChanged(previousQueryKey, currentQueryKey) ==
  previousQueryKey # EmptyKey /\ previousQueryKey # currentQueryKey

\* the useEffect body: a value (not undefined, not an Error) is remembered
\* together with the current key
Effect_DataOnly(v, cr, currentQueryKey) ==
  IF cr.kind = "value" THEN [v EXCEPT !.data = cr.val] ELSE v

Effect_Unguarded(v, cr, currentQueryKey) ==
  IF cr.kind = "error" THEN v
  ELSE [data |-> cr.val, key |-> currentQueryKey]

Effect(v, cr, currentQueryKey) ==
  IF cr.kind = "value" THEN [data |-> cr.val, key |-> currentQueryKey] ELSE v

\* the five records useQuery returns
QueryResult(data, error, status, flags) ==
  [data |-> data, error |-> error, status |-> status,
   isLoading |-> "isLoading" \in flags,
   isFetching |-> "isFetching" \in flags,
   isPending |-> "isPending" \in flags,
   isSuccess |-> "isSuccess" \in flags,
   isError |-> "isError" \in flags,
   isPlaceholderData |-> "isPlaceholderData" \in flags]

ErrorResult_Pending(e) == QueryResult(Undefined, e, "error", {"isError", "isPending"})

ErrorResult(e) == QueryResult(Undefined, e, "error", {"isError"})

SkipResult_Loading ==
  QueryResult(Undefined, Undefined, "loading", {"isLoading", "isFetching", "isPending"})

SkipResult == QueryResult(Undefined, Undefined, "loading", {"isPending"})

PlaceholderResult(d) ==
  QueryResult(d, Undefined, "success", {"isFetching", "isSuccess", "isPlaceholderData"})

LoadingResult_NotFetching ==
  QueryResult(Undefined, Undefined, "loading", {"isLoading", "isPending"})

LoadingResult ==
  QueryResult(Undefined, Undefined, "loading", {"isLoading", "isFetching", "isPending"})

SuccessResult(d) == QueryResult(d, Undefined, "success", {"isSuccess"})

\* the return statements of useQuery, in the order the code tests them
UseQueryResult(cr, enabled, skip, keepPreviousData, queryKeyChanged, previousData) ==
  IF cr.kind = "error" THEN ErrorResult(cr.val)
  ELSE IF ~enabled \/ skip THEN SkipResult
  ELSE IF cr.kind = "absent"
    THEN IF keepPreviousData /\ queryKeyChanged /\ previousData # Undefined
           THEN PlaceholderResult(previousData)
           ELSE LoadingResult
  ELSE SuccessResult(cr.val)

\* ---------------------------------------------- the cached variant
\* useCacheQuery repeats the derivation over the registry of the query
\* cache provider (useCachedQueries)
CacheCurrentQueryKey(query, argsObject) ==
  [fn |-> GetFunctionName(query), args |-> ConvexToJson(argsObject)]

CacheQueries(query, argsObject, skip, enabled) ==
  IF skip \/ ~enabled
    THEN {}
    ELSE {[label |-> "query", query |-> query, args |-> argsObject]}

CacheQueriesDeps(query, argsObject, skip, enabled) ==
  <<ConvexToJson(argsObject), GetFunctionName(query), skip, enabled>>

\* useCachedQueries(queries).query
UseCachedQueries(qs, s) == IF qs = {} THEN Absent ELSE s

CacheQueryKeyChanged(previousQueryKey, currentQueryKey) ==
  previousQueryKey # EmptyKey /\ previousQueryKey # currentQueryKey

CacheEffect_KeyOnly(v, cr, currentQueryKey) ==
  IF cr.kind = "value" THEN [v EXCEPT !.key = currentQueryKey] ELSE v

CacheEffect(v, cr, currentQueryKey) ==
  IF cr.kind = "value" THEN [data |-> cr.val, key |-> currentQueryKey] ELSE v

\* the return statements of useCacheQuery, in the order the code tests them
UseCacheQueryResult_HoldsAsLoading(cr, enabled, skip, keepPreviousData, queryKeyChanged, previousData) ==
  IF cr.kind = "error"
    THEN QueryResult(Undefined, cr.val, "error", {"isError"})
  ELSE IF ~enabled \/ skip
    THEN QueryResult(Undefined, Undefined, "loading", {"isPending"})
  ELSE IF cr.kind = "absent"
    THEN IF keepPreviousData /\ queryKeyChanged /\ previousData # Undefined
           THEN QueryResult(previousData, Undefined, "loading",
                            {"isLoading", "isFetching", "isPlaceholderData"})
           ELSE QueryResult(Undefined, Undefined, "loading",
                            {"isLoading", "isFetching", "isPending"})
  ELSE QueryResult(cr.val, Undefined, "success", {"isSuccess"})

UseCacheQueryResult(cr, enabled, skip, keepPreviousData, queryKeyChanged, previousData) ==
  IF cr.kind = "error"
    THEN QueryResult(Undefined, cr.val, "error", {"isError"})
  ELSE IF ~enabled \/ skip
    THEN QueryResult(Undefined, Undefined, "loading", {"isPending"})
  ELSE IF cr.kind = "absent"
    THEN IF keepPreviousData /\ queryKeyChanged /\ previousData # Undefined
           THEN QueryResult(previousData, Undefined, "success",
                            {"isFetching", "isSuccess", "isPlaceholderData"})
           ELSE QueryResult(Undefined, Undefined, "loading",
                            {"isLoading", "isFetching", "isPending"})
  ELSE QueryResult(cr.val, Undefined, "success", {"isSuccess"})

\* what an evaluation is given, as far as the derivation depends on it
Input(currentQueryKey, skip, enabled, keepPreviousData) ==
  [key |-> currentQueryKey, skip |-> skip, enabled |-> enabled,
   keepPreviousData |-> keepPreviousData]

NoInput == Input(EmptyKey, FALSE, TRUE, FALSE)

\* the call site before its first evaluation
InitialView == [data |-> Undefined, key |-> EmptyKey]

QueryIdle ==
  /\ view = InitialView
  /\ queries = [deps |-> <<>>, value |-> {}]
  /\ rendered = FALSE
  /\ qin = NoInput
  /\ snap = Absent
  /\ convexResult = Absent
  /\ qresult = LoadingResult
  /\ qchange = "first"
  /\ qprevHeld = FALSE
  /\ observed = Undefined
  /\ cview = InitialView
  /\ cqueries = [deps |-> <<>>, value |-> {}]
  /\ cconvexResult = Absent
  /\ cresult = LoadingResult

\* no binding key has been asked for
KeyIdle ==
  /\ keyInputs = <<>>
  /\ keyOutputs = <<>>

\* ------------------------------------------------------------------- Init
Init ==
  /\ mstate = InitialState
  /\ mounted = TRUE
  /\ options \in SUBSET CallbackNames
  /\ inflight = {}
  /\ calls = 0
  /\ last = Op("init", NoInvocation, NoRemote)
  /\ prev = InitialState
  /\ trace = <<>>
  /\ lateSets = 0
  /\ QueryIdle
  /\ KeyIdle

\* ---------------------------------------------------------------- actions
\* mutate(variables) / mutateAsync(variables), up to the await
Mutate(variables) ==
  /\ mounted
  /\ calls < MaxCalls
  /\ LET es == MutateStart(variables)
         inv == Invocation(calls + 1, variables, mstate.status, inflight # {})
     IN /\ trace' = es
        /\ mstate' = ApplyEffects(mstate, es)
        /\ inflight' = {[i EXCEPT !.overlap = TRUE] : i \in inflight}
                         \cup {x \in {inv} : Len(SelectOps(es, {"convexMutation"})) > 0}
        /\ last' = Op("mutate", inv, NoRemote)
  /\ calls' = calls + 1
  /\ prev' = mstate
  /\ UNCHANGED <<mounted, options, lateSets>>
  /\ UNCHANGED <<qvars, kvars>>

\* reset()
Reset_Cancels ==
  /\ mounted
  /\ trace' = ResetEffects
  /\ mstate' = ApplyEffects(mstate, ResetEffects)
  /\ inflight' = {}
  /\ last' = Op("reset", NoInvocation, NoRemote)
  /\ prev' = mstate
  /\ UNCHANGED <<mounted, options, calls, lateSets>>
  /\ UNCHANGED <<qvars, kvars>>

Reset ==
  /\ mounted
  /\ trace' = ResetEffects
  /\ mstate' = ApplyEffects(mstate, ResetEffects)
  /\ inflight' = {[i EXCEPT !.wasReset = TRUE] : i \in inflight}
  /\ last' = Op("reset", NoInvocation, NoRemote)
  /\ prev' = mstate
  /\ UNCHANGED <<mounted, options, calls, lateSets>>
  /\ UNCHANGED <<qvars, kvars>>

\* convexMutation settles and mutateAsync runs from its await to its end.
\* The setter calls are made whether or not the call site is still alive;
\* the host drops the updates of a torn-down call site.
Settle(inv, remote, th, tv) ==
  /\ inv \in inflight
  /\ LET es == Continuation(remote, inv.variables, options, th, tv)
     IN /\ trace' = es
        /\ mstate' = IF mounted THEN ApplyEffects(mstate, es) ELSE mstate
        /\ lateSets' = IF mounted THEN lateSets ELSE lateSets + NumSets(es)
  /\ inflight' = {[i EXCEPT !.otherSettled = TRUE] : i \in inflight \ {inv}}
  /\ last' = Op("settle", inv, remote)
  /\ prev' = mstate
  /\ UNCHANGED <<mounted, options, calls>>
  /\ UNCHANGED <<qvars, kvars>>

\* the component owning the call site is torn down
Unmount ==
  /\ mounted
  /\ mounted' = FALSE
  /\ last' = Op("unmount", NoInvocation, NoRemote)
  /\ prev' = mstate
  /\ trace' = <<>>
  /\ UNCHANGED <<mstate, options, inflight, calls, lateSets>>
  /\ UNCHANGED <<qvars, kvars>>

\* the caller triggers the mutation with some argument payload
MutateCall == \E variables \in Variables : Mutate(variables)

\* the remote call of some invocation in flight settles, in any order
SettleCall ==
  \E inv \in inflight, remote \in RemoteOutcomes, tv \in CallbackThrows :
    \E th \in ThrowSets(remote) : Settle(inv, remote, th, tv)

Next ==
  \/ MutateCall
  \/ Reset
  \/ SettleCall
  \/ Unmount

Spec == Init /\ [][Next]_<<vars, qvars, kvars>>

TypeOK ==
  /\ mstate.status \in MutationStatus
  /\ mstate.isPending \in BOOLEAN
  /\ mounted \in BOOLEAN
  /\ options \subseteq CallbackNames
  /\ calls \in 0..MaxCalls
  /\ Cardinality(inflight) <= calls

\* --------------------------------------------- the query specification
\* the mutation side of the call site, untouched by the query evaluations
MutationIdle ==
  /\ mstate = InitialState
  /\ mounted = TRUE
  /\ options = {}
  /\ inflight = {}
  /\ calls = 0
  /\ last = Op("init", NoInvocation, NoRemote)
  /\ prev = InitialState
  /\ trace = <<>>
  /\ lateSets = 0

QInit == QueryIdle /\ MutationIdle /\ KeyIdle

\* one evaluation of useQuery(query, args, opts) while the registry holds s
\* for the binding, followed by its effect.  The registry does not take back
\* a value it delivered to a mapping that stays registered: the snapshot of
\* such a binding does not return to "no result yet".
Render(query, args, opts, s) ==
  LET skip == Skip(args)
      argsObject == ArgsObject(args)
      enabled == Enabled(opts)
      keepPreviousData == KeepPreviousData(opts)
      currentQueryKey == CurrentQueryKey(query, argsObject)
      deps == QueriesDeps(query, argsObject, skip, enabled)
      qs == IF rendered /\ queries.deps = deps
              THEN queries.value
              ELSE Queries(query, argsObject, skip, enabled)
      cr == UseQueries(qs, s)
      res == UseQueryResult(cr, enabled, skip, keepPreviousData,
                            QueryKeyChanged(view.key, currentQueryKey), view.data)
  IN /\ ~(/\ rendered /\ queries.deps = deps /\ qs # {}
           /\ convexResult.kind = "value" /\ s.kind = "absent")
     /\ queries' = [deps |-> deps, value |-> qs]
     /\ convexResult' = cr
     /\ qresult' = res
     /\ view' = Effect(view, cr, currentQueryKey)
     /\ observed' = IF cr.kind = "value" THEN cr.val ELSE observed
     /\ qchange' = LET now == Input(currentQueryKey, skip, enabled, keepPreviousData)
                   IN IF ~rendered THEN "first"
                      ELSE IF now = qin /\ s = snap THEN "same"
                      ELSE IF currentQueryKey # qin.key THEN "key"
                      ELSE "other"
     /\ qin' = Input(currentQueryKey, skip, enabled, keepPreviousData)
     /\ snap' = s
     /\ rendered' = TRUE
     /\ qprevHeld' = qresult.isPlaceholderData
     /\ UNCHANGED <<vars, kvars>>

\* the same evaluation of useCacheQuery(query, args, opts), its registry
\* holding s for the binding, followed by its effect
RenderCache(query, args, opts, s) ==
  LET skip == Skip(args)
      argsObject == ArgsObject(args)
      enabled == Enabled(opts)
      keepPreviousData == KeepPreviousData(opts)
      currentQueryKey == CacheCurrentQueryKey(query, argsObject)
      deps == CacheQueriesDeps(query, argsObject, skip, enabled)
      qs == IF rendered /\ cqueries.deps = deps
              THEN cqueries.value
              ELSE CacheQueries(query, argsObject, skip, enabled)
      cr == UseCachedQueries(qs, s)
      res == UseCacheQueryResult(cr, enabled, skip, keepPreviousData,
                                 CacheQueryKeyChanged(cview.key, currentQueryKey),
                                 cview.data)
  IN /\ ~(/\ rendered /\ cqueries.deps = deps /\ qs # {}
           /\ cconvexResult.kind = "value" /\ s.kind = "absent")
     /\ cqueries' = [deps |-> deps, value |-> qs]
     /\ cconvexResult' = cr
     /\ cresult' = res
     /\ cview' = CacheEffect(cview, cr, currentQueryKey)

\* the host evaluates the call site, which uses both hooks with the same
\* inputs: with any inputs, at any state of the registries, both holding
\* the same snapshot for the binding
RenderCall ==
  \E query \in QueryRefs, args \in ArgInputs, opts \in OptionInputs, s \in Snapshots :
    /\ Render(query, args, opts, s)
    /\ RenderCache(query, args, opts, s)

QNext == RenderCall

SpecQuery == QInit /\ [][QNext]_<<vars, qvars, kvars>>

\* ------------------------------------------- the binding-key specification
\* function references for the key: f1 and f2 refer to the same function
KeyQueryRefs == QueryRefs \cup {[ref |-> "f2", name |-> "users:get"]}

KeyFields == {<<"a", "1">>, <<"a", "2">>, <<"b", "2">>}

\* argument payloads for the key: up to two fields, in either insertion order
KeyPayloads ==
  {<<>>}
    \cup {<<x>> : x \in KeyFields}
    \cup {p \in KeyFields \X KeyFields : p[1][1] # p[2][1]}

KeyBindings == [query : KeyQueryRefs, args : KeyPayloads]

KInit ==
  /\ keyInputs \in KeyBindings \X KeyBindings
  /\ keyOutputs = <<>>
  /\ QueryIdle
  /\ MutationIdle

\* currentQueryKey is computed for both bindings
ComputeKeys ==
  /\ keyOutputs = <<>>
  /\ keyOutputs' = <<CurrentQueryKey(keyInputs[1].query, keyInputs[1].args),
                     CurrentQueryKey(keyInputs[2].query, keyInputs[2].args)>>
  /\ UNCHANGED <<keyInputs, vars, qvars>>

KNext == ComputeKeys

SpecKey == KInit /\ [][KNext]_<<vars, qvars, kvars>>

\* ------------------------------------------------- vocabulary of the claims
\* the user callback calls of a run, in order, without their threw flag
CallsMade(es) ==
  LET cs == SelectOps(es, CallbackNames)
  IN [i \in 1..Len(cs) |-> [cs[i] EXCEPT !.b = FALSE]]

\* the callback named name threw in the run es
Threw(es, name) == \E i \in 1..Len(es) : es[i].op = name /\ es[i].b

NoThrow(es) == \A name \in CallbackNames : ~Threw(es, name)

\* how the run ended: its return (the promise resolves) or throw (it rejects)
Final(es) == es[Len(es)]

\* the last operation was the settling of an invocation
Settled == last.kind = "settle"

\* a reset() or the settling of another invocation happened at the call
\* site while inv was in flight
Disturbed(inv) == inv.wasReset \/ inv.otherSettled

\* inv was called in status idle and was alone at the call site throughout
Alone(inv) == inv.pre = "idle" /\ ~inv.overlap /\ ~Disturbed(inv)

Outcomes == {"success", "error"}

\* ------------------------------------------------------------------- C1
\* C1 as stated: status never moves to success or error from any state
\* other than pending.
C1_OnlyFromPending ==
  [][(mstate'.status \in Outcomes /\ mstate'.status # mstate.status)
       => mstate.status = "pending"]_vars

\* C1 amended: status changes only by mutate (to pending), by reset (to
\* idle) or by the settling of an in-flight invocation (to success or
\* error), and a settling moves it from a status other than pending only
\* when a reset() or the settling of an overlapping invocation happened
\* while the settling invocation was in flight.
C1_StatusTransitions ==
  [][mstate'.status # mstate.status =>
        \/ last'.kind = "mutate" /\ mstate'.status = "pending"
        \/ last'.kind = "reset" /\ mstate'.status = "idle"
        \/ /\ last'.kind = "settle"
           /\ mstate'.status \in Outcomes
           /\ mstate.status = "pending" \/ Disturbed(last'.inv)]_vars

\* C1 witness: an invocation that was reset while in flight settles and
\* moves status from idle to success.
C1_Witness ==
  /\ Settled
  /\ last.inv.wasReset
  /\ prev.status = "idle"
  /\ mstate.status = "success"

\* ------------------------------------------------------------------- C2
\* C2: whenever the mutation status is success the stored error is
\* undefined.
C2_SuccessClearsError == mstate.status = "success" => mstate.error = Undefined

\* ------------------------------------------------------------------- C3
\* C3: a mutate(args) call made in status idle, alone at the call site, not
\* reset, whose callbacks do not throw and whose remote call resolves with
\* R: the call moves status to pending, the settling moves it from pending
\* to success, the callbacks called are onSuccess(R, args) then
\* onSettled(R, undefined, args), each once when present, onError is not
\* called, and the promise resolves to R.
C3_SuccessScenario ==
  /\ (last.kind = "mutate" /\ prev.status = "idle") => mstate.status = "pending"
  /\ (Settled /\ mounted /\ last.remote.kind = "resolve"
        /\ NoThrow(trace) /\ Alone(last.inv))
       => /\ prev.status = "pending"
          /\ mstate.status = "success"
          /\ CallsMade(trace) =
               (IF "onSuccess" \in options
                  THEN <<OnSuccess(last.remote.val, last.inv.variables, FALSE)>>
                  ELSE <<>>)
               \o (IF "onSettled" \in options
                     THEN <<OnSettled(last.remote.val, Undefined,
                                      last.inv.variables, FALSE)>>
                     ELSE <<>>)
          /\ Final(trace) = Return(last.remote.val)

\* C3 witness: such a call with all three callbacks present has settled.
C3_Witness ==
  /\ Settled /\ mounted /\ last.remote.kind = "resolve"
  /\ NoThrow(trace) /\ Alone(last.inv)
  /\ options = CallbackNames
  /\ Len(CallsMade(trace)) = 2
  /\ mstate.status = "success"

\* ------------------------------------------------------------------- C4
\* what C4 says of a settled rejecting call: status pending -> error, the
\* stored error is the rejection when it is an Error object and the generic
\* "Unknown error" otherwise, onError(error, args) then
\* onSettled(undefined, error, args) are called, each once when present,
\* onSuccess is not called, and the promise rejects.
C4_Conclusion ==
  /\ prev.status = "pending"
  /\ mstate.status = "error"
  /\ last.remote.val \in ErrorObjects => mstate.error = last.remote.val
  /\ last.remote.val \notin ErrorObjects => mstate.error = "Error:Unknown error"
  /\ CallsMade(trace) =
       (IF "onError" \in options
          THEN <<OnError(mstate.error, last.inv.variables, FALSE)>> ELSE <<>>)
       \o (IF "onSettled" \in options
             THEN <<OnSettled(Undefined, mstate.error, last.inv.variables, FALSE)>>
             ELSE <<>>)
  /\ Final(trace).op = "throw"

C4_Case == Settled /\ mounted /\ last.remote.kind = "reject" /\ Alone(last.inv)

RethrowsStored(es) ==
  LET n == Len(es)
  IN /\ es[n].op = "throw"
     /\ \E i \in 1..(n - 1) : es[i] = SetError(es[n].v)
     /\ \E i \in 1..(n - 1) : es[i] = SetStatus("error")
     /\ \A name \in options \cap {"onError", "onSettled"} :
          \E i \in 1..(n - 1) : es[i].op = name

C6_ResetToIdle ==
  last.kind = "reset" =>
    mstate = [isPending |-> FALSE, error |-> Undefined, status |-> "idle"]

\* C6 witness: reset() was called in status error with an error stored.
C6_Witness ==
  /\ last.kind = "reset"
  /\ prev.status = "error"
  /\ prev.error # Undefined

\* ------------------------------------------------------------------- C7
LeavesError ==
  /\ mstate.status = "error"
  /\ mstate'.status # "error" \/ mstate'.error # mstate.error

\* C7 as stated: once status is error, it stays error with the stored error
\* until the next mutate call or reset(); no other event changes it.
C7_ErrorUntilMutateOrReset ==
  [][LeavesError => last'.kind \in {"mutate", "reset"}]_vars

\* C7 amended: once status is error, it stays error with the stored error
\* until the next mutate call (to pending), a reset() (to idle), or the
\* settling of an overlapping invocation that was already in flight when
\* the failure was stored (last settled wins).
C7_ErrorUntilNextEvent ==
  [][LeavesError =>
        \/ last'.kind = "mutate" /\ mstate'.status = "pending"
        \/ last'.kind = "reset" /\ mstate'.status = "idle"
        \/ last'.kind = "settle" /\ last'.inv.otherSettled]_vars

\* C7 witness: status was error and the settling of an overlapping
\* invocation moved it to success.
C7_Witness ==
  /\ Settled
  /\ last.inv.otherSettled
  /\ prev.status = "error"
  /\ mstate.status = "success"

\* ------------------------------------------------------------------- C8
\* C8: isPending is true if and only if at least one mutate invocation of
\* the call site is in flight.
C8_PendingIffInFlight == mounted => (mstate.isPending <=> inflight # {})

\* ------------------------------------------------------------------- C9
\* C9: each mutate call invokes the remote-call invoker at once and exactly
\* once, also while another invocation is pending; and after all overlapping
\* invocations have settled with no reset in between, status and error are
\* those of the invocation that settled last.
C9_LastSettledWins ==
  /\ last.kind = "mutate"
       => /\ SelectOps(trace, {"convexMutation"})
               = <<ConvexMutation(last.inv.variables)>>
          /\ last.inv \in inflight
  /\ (Settled /\ mounted /\ inflight = {} /\ last.inv.overlap
        /\ ~last.inv.wasReset /\ NoThrow(trace))
       => IF last.remote.kind = "resolve"
            THEN mstate.status = "success" /\ mstate.error = Undefined
            ELSE mstate.status = "error" /\ mstate.error = Normalize(last.remote.val)

\* ------------------------------------------------------------------ C10
\* C10: after the call site is torn down no state update of that call site
\* is performed by a late settling.
C10_NoUpdateAfterUnmount == lateSets = 0

\* ------------------------------------------- vocabulary of the query claims
\* the last evaluation was skipped or disabled
Skipped == qin.skip \/ ~qin.enabled

\* a record with exactly the named flags true
Expect(data, error, status, flags) ==
  [data |-> data, error |-> error, status |-> status,
   isLoading |-> "isLoading" \in flags,
   isFetching |-> "isFetching" \in flags,
   isPending |-> "isPending" \in flags,
   isSuccess |-> "isSuccess" \in flags,
   isError |-> "isError" \in flags,
   isPlaceholderData |-> "isPlaceholderData" \in flags]

\* ------------------------------------------------------------------ C11
\* C11: every evaluation with args = "skip" or enabled = false returns data
\* undefined, error undefined, status loading, isPending true and every
\* other boolean false, whatever the history.
C11_SkipResult ==
  (rendered /\ Skipped)
    => qresult = Expect(Undefined, Undefined, "loading", {"isPending"})

\* C11 witness: a disabled evaluation with keepPreviousData on, after a
\* value of another binding was observed.
C11_Witness ==
  /\ rendered /\ ~qin.enabled /\ qin.keepPreviousData
  /\ view.data # Undefined
  /\ view.key # qin.key
  /\ qresult.status = "loading"

C13_Registration ==
  rendered =>
    IF Skipped
      THEN queries.value = {}
      ELSE /\ Cardinality(queries.value) = 1
           /\ \A e \in queries.value :
                /\ e.label = "query"
                /\ GetFunctionName(e.query) = qin.key.fn
                /\ ConvexToJson(e.args) = qin.key.args

\* C13 witness: the binding is registered by an evaluation that changed
\* neither the function nor the arguments of the one before.
C13_Witness ==
  /\ rendered /\ ~Skipped
  /\ qchange = "other"
  /\ queries.value # {}
  /\ convexResult.kind = "absent"

C15_AbsentIsLoading ==
  (rendered /\ convexResult.kind = "absent" /\ ~qin.keepPreviousData)
    => qresult.isLoading /\ qresult.isFetching /\ qresult.isPending

\* C15 amended: every evaluation that is enabled and not skipped, whose
\* snapshot is absent with keepPreviousData = false, has isLoading,
\* isFetching and isPending true.
C15_EnabledAbsentIsLoading ==
  (rendered /\ ~Skipped /\ convexResult.kind = "absent" /\ ~qin.keepPreviousData)
    => qresult.isLoading /\ qresult.isFetching /\ qresult.isPending

\* C15 witness: such an evaluation, after a value of another binding was
\* observed.
C15_Witness ==
  /\ rendered /\ ~Skipped /\ convexResult.kind = "absent" /\ ~qin.keepPreviousData
  /\ view.data # Undefined
  /\ view.key # qin.key
  /\ qresult.isLoading

\* ------------------------------------------------------------------ C16
\* the evaluation of this step reads an absent snapshot with
\* keepPreviousData on, for a binding key other than the one in the view
\* state, while the view state holds a value
HoldCase ==
  /\ convexResult'.kind = "absent"
  /\ qin'.keepPreviousData
  /\ view.data # Undefined
  /\ view.key # qin'.key

\* the evaluation of this step returns the last observed value as
\* placeholder data
HoldsPrevious ==
  /\ view.data = observed
  /\ qresult' = Expect(observed, Undefined, "success",
                       {"isSuccess", "isFetching", "isPlaceholderData"})

\* C16 as stated: in that case the result is the placeholder result with
\* the most recently observed value.
C16_PlaceholderAlways == [][HoldCase => HoldsPrevious]_qvars

\* C16 amended: in that case, when the evaluation is enabled and not
\* skipped, the result is the placeholder result with the most recently
\* observed value; also across several consecutive key changes.
C16_Placeholder ==
  [][(HoldCase /\ qin'.enabled /\ ~qin'.skip) => HoldsPrevious]_qvars

\* C16 witness: two evaluations in a row returned placeholder data, the
\* second for another key than the first, both other than the key in the
\* view state.
C16_Witness ==
  /\ qresult.isPlaceholderData
  /\ qprevHeld
  /\ qchange = "key"
  /\ qresult.data = observed

\* ------------------------------------------------------------------ C17
\* C17: when the snapshot read is a value the result is status success,
\* isSuccess true, data the value, every other boolean false, and after the
\* effect the view state holds exactly that value and the current key.
C17_ValueResult ==
  (rendered /\ convexResult.kind = "value")
    => /\ qresult = Expect(convexResult.val, Undefined, "success", {"isSuccess"})
       /\ view = [data |-> convexResult.val, key |-> qin.key]

\* C17 witness: a value is read right after an evaluation that returned
\* placeholder data.
C17_Witness ==
  /\ rendered /\ convexResult.kind = "value"
  /\ qprevHeld
  /\ view.data = convexResult.val

\* ------------------------------------------------------------------ C18
\* C18: with keepPreviousData on, once a value has been observed at the
\* call site, every enabled, non-skipped evaluation whose snapshot is absent
\* shows previous data (data is not undefined).
C18_FlickerFree ==
  (/\ rendered /\ ~Skipped /\ qin.keepPreviousData
   /\ convexResult.kind = "absent"
   /\ observed # Undefined)
    => qresult.data # Undefined

\* ------------------------------------------------------------------ C19
\* C19: an evaluation with the snapshot, binding and options of the one
\* before returns the same result, and leaves the view state as the one
\* before left it.
C19_Idempotent ==
  [][qchange' = "same" => (qresult' = qresult /\ view' = view)]_qvars

\* C19 witness: an evaluation was repeated after one that returned
\* placeholder data.
C19_Witness ==
  /\ qchange = "same"
  /\ qresult.isPlaceholderData

\* ------------------------------------------------------------------ C20
\* C20: whenever the query status is loading or error, isPending is true.
C20_PendingWhenLoadingOrError ==
  (rendered /\ qresult.status \in {"loading", "error"}) => qresult.isPending

\* ------------------------------------------------------------------ C21
\* the two payloads have the same fields with the same values
SameFields(p1, p2) ==
  {p1[i] : i \in 1..Len(p1)} = {p2[i] : i \in 1..Len(p2)}

\* C21: two bindings have the same binding key exactly when they name the
\* same function and their argument payloads have the same fields and
\* values, in whatever order the fields were inserted.
C21_KeyEquality ==
  keyOutputs # <<>> =>
    ((keyOutputs[1] = keyOutputs[2])
       <=> /\ GetFunctionName(keyInputs[1].query) = GetFunctionName(keyInputs[2].query)
           /\ SameFields(keyInputs[1].args, keyInputs[2].args))

\* C21 witness: two payloads of two fields, inserted in different order,
\* got the same key.
C21_Witness ==
  /\ keyOutputs # <<>>
  /\ Len(keyInputs[1].args) = 2
  /\ keyInputs[1].args # keyInputs[2].args
  /\ keyOutputs[1] = keyOutputs[2]

\* ------------------------------------------------------------------ C22
\* C22: an evaluation whose snapshot is absent or an error, and every
\* skipped or disabled evaluation, leaves the stored value and the stored
\* key as they were; the only evaluations that change either of them read a
\* value, and they store that value and the current key together.
C22_ViewFrame ==
  [][/\ (convexResult'.kind # "value" \/ qin'.skip \/ ~qin'.enabled) => view' = view
     /\ view' # view =>
          /\ convexResult'.kind = "value"
          /\ view' = [data |-> convexResult'.val, key |-> qin'.key]]_qvars

\* C22 witness: a skipped or disabled evaluation, made while the registry
\* holds a value other than the stored one, for another key than the stored
\* one.
C22_Witness ==
  /\ rendered /\ Skipped
  /\ snap.kind = "value"
  /\ view.data # Undefined
  /\ view.data # snap.val
  /\ view.key # qin.key

\* ------------------------------------------------------------------ C23
\* C23: reset() removes no invocation from flight, and when an invocation
\* that was reset while in flight settles, its continuation runs as for any
\* other invocation: onSuccess(R, args) is called when the remote call
\* resolved with R and onError(E, args) when it rejected, onSettled is
\* called unless a callback threw before it, the promise resolves or
\* rejects, and the outcome is written into the mutation state of the live
\* call site (success and no change of the stored error, or error and the
\* normalized rejection, when no callback throws).
C23_ResetDoesNotCancel ==
  /\ [][last'.kind = "reset" =>
          \A i \in inflight : \E j \in inflight' : j.id = i.id /\ j.wasReset]_vars
  /\ []((Settled /\ last.inv.wasReset) =>
       /\ ("onSuccess" \in options /\ last.remote.kind = "resolve")
            => trace[1] = [OnSuccess(last.remote.val, last.inv.variables, FALSE)
                             EXCEPT !.b = Threw(trace, "onSuccess")]
       /\ ("onError" \in options /\ last.remote.kind = "reject")
            => \E i \in 1..Len(trace) :
                 [trace[i] EXCEPT !.b = FALSE]
                   = OnError(Normalize(last.remote.val), last.inv.variables, FALSE)
       /\ ("onSettled" \in options /\ ~Threw(trace, "onSuccess") /\ ~Threw(trace, "onError"))
            => Len(SelectOps(trace, {"onSettled"})) >= 1
       /\ Final(trace).op \in {"return", "throw"}
       /\ (last.remote.kind = "reject") => Final(trace).op = "throw"
       /\ (last.remote.kind = "resolve" /\ NoThrow(trace))
            => Final(trace) = Return(last.remote.val)
       /\ mounted =>
            /\ mstate.status \in Outcomes
            /\ ~mstate.isPending
            /\ (mstate.status = "success") <=> (Final(trace).op = "return")
            /\ NoThrow(trace) =>
                 IF last.remote.kind = "resolve"
                   THEN mstate = [prev EXCEPT !.status = "success", !.isPending = FALSE]
                   ELSE mstate = [isPending |-> FALSE, status |-> "error",
                                  error |-> Normalize(last.remote.val)])

\* C23 witness: an invocation that was reset while pending has settled with
\* all three callbacks present, and moved the call site from idle to error.
C23_Witness ==
  /\ Settled /\ mounted
  /\ last.inv.wasReset
  /\ options = CallbackNames
  /\ last.remote.kind = "reject"
  /\ NoThrow(trace)
  /\ prev.status = "idle"
  /\ mstate.status = "error"

\* ------------------------------------------------------------------ C24
\* the flags of the result record r agree with its status, data and error
Consistent(r) ==
  /\ r.status \in {"loading", "error", "success"}
  /\ r.isSuccess <=> r.status = "success"
  /\ r.isError <=> r.status = "error"
  /\ r.isError <=> r.error # Undefined
  /\ r.isLoading => (r.isFetching /\ r.isPending /\ r.status = "loading")
  /\ r.isPlaceholderData => (r.isSuccess /\ r.isFetching /\ r.data # Undefined)
  /\ r.data # Undefined => r.status = "success"

\* C24: in every result of useQuery and of useCacheQuery exactly one status
\* holds; isSuccess iff status = success; isError iff status = error iff
\* error is defined; isLoading implies isFetching, isPending and status =
\* loading; isPlaceholderData implies isSuccess, isFetching and data
\* defined; data defined implies status = success.
C24_FlagsConsistent ==
  rendered => (Consistent(qresult) /\ Consistent(cresult))

\* C24 witness: both hooks returned placeholder data.
C24_Witness ==
  /\ rendered
  /\ qresult.isPlaceholderData /\ qresult.data # Undefined
  /\ cresult.isPlaceholderData /\ cresult.data # Undefined

\* ------------------------------------------------------------------ C25
\* C25: after any interleaving of mutate, reset and settle events,
\* isPending is true if and only if status = pending.
C25_PendingIffStatusPending ==
  mstate.isPending <=> (mstate.status = "pending")

\* C25 witness: of two overlapping invocations one has settled while the
\* other is still in flight, and the call site shows the outcome.
C25_Witness ==
  /\ Settled /\ mounted
  /\ inflight # {}
  /\ last.inv.overlap
  /\ mstate.status \in Outcomes
  /\ ~mstate.isPending

\* ------------------------------------------------------------------ C26
\* the number of calls of the callback named name in the run es
Invoked(es, name) == Len(SelectOps(es, {name}))

\* C26: for every mutate invocation, also when a user callback throws,
\* onSuccess and onError are never both invoked, exactly one of them is
\* when both are present, and onSettled is invoked at most once; an
\* invocation whose remote call resolved never invokes onError and never
\* ends with status error.
C26_CallbacksExclusive ==
  Settled =>
    /\ ~(Invoked(trace, "onSuccess") >= 1 /\ Invoked(trace, "onError") >= 1)
    /\ {"onSuccess", "onError"} \subseteq options
         => Invoked(trace, "onSuccess") + Invoked(trace, "onError") = 1
    /\ Invoked(trace, "onSettled") <= 1
    /\ last.remote.kind = "resolve" =>
         /\ Invoked(trace, "onError") = 0
         /\ mounted => mstate.status # "error"

\* ------------------------------------------------------------------ C27
\* C27: whenever isPlaceholderData is true, the data returned was produced
\* by a binding with the same function as the current binding.
C27_PlaceholderSameFunction ==
  (rendered /\ qresult.isPlaceholderData)
    => /\ qresult.data = view.data
       /\ view.key.fn = qin.key.fn

\* ------------------------------------------------------------------ C28
\* C28: an enabled, non-skipped evaluation whose snapshot is a value W
\* returns data W with isPlaceholderData and isFetching false, whatever the
\* evaluation before returned, and leaves W stored under the current key;
\* an evaluation of the stored key whose snapshot is absent does not return
\* placeholder data.
C28_PlaceholderTransient ==
  [][/\ (qin'.enabled /\ ~qin'.skip /\ snap'.kind = "value") =>
          /\ qresult'.data = snap'.val
          /\ qresult'.status = "success"
          /\ ~qresult'.isPlaceholderData
          /\ ~qresult'.isFetching
          /\ view' = [data |-> snap'.val, key |-> qin'.key]
     /\ (convexResult'.kind = "absent" /\ qin'.key = view.key)
          => ~qresult'.isPlaceholderData]_qvars

\* C28 witness: the binding stayed as it was in the evaluation before, which
\* returned placeholder data; its snapshot is now a value, which is
\* returned as data and stored under the current key.
C28_Witness ==
  /\ rendered /\ ~Skipped
  /\ qprevHeld
  /\ qchange = "other"
  /\ snap.kind = "value"
  /\ qresult.data = snap.val
  /\ ~qresult.isPlaceholderData /\ ~qresult.isFetching
  /\ view = [data |-> snap.val, key |-> qin.key]

\* ------------------------------------------------------------------ C29
\* C29: evaluated side by side on the same inputs, with their registries
\* holding the same snapshots, useCacheQuery and useQuery hand the same
\* mapping to their registries, return the same result and hold the same
\* stored value and key after every evaluation.
C29_SameDerivation ==
  /\ cqueries = queries
  /\ cconvexResult = convexResult
  /\ cresult = qresult
  /\ cview = view

\* C29 witness: after a value was stored and the binding key changed twice,
\* both hooks return the stored value as placeholder data.
C29_Witness ==
  /\ rendered
  /\ qchange = "key"
  /\ qprevHeld
  /\ cview.data # Undefined
  /\ cview = view
  /\ cresult.isPlaceholderData
  /\ cresult = qresult

====
